---- MODULE Spec2Model ----
(***************************************************************************)
(* Model of the snake game of cmd/main.go: the Game struct and             *)
(* Game.Update, Game.reset and Game.placeFood.                             *)
(*                                                                         *)
(* One Update call is one step of the model, except that the rejection     *)
(* sampling loop of placeFood is a step of its own (PlaceFood): the loop   *)
(* needs not terminate, so the call that runs it is split at the loop.     *)
(* pc = "idle" are the states between two calls of Update.                 *)
(*                                                                         *)
(* The grid (40 x 30 in the source) and the speed ramp (8 frames per move, *)
(* one frame faster every 5 points) are scaled down so that the state      *)
(* space is finite and small: gridW, gridH, baseTickSpeed and speedUpEvery *)
(* keep the source's names but carry model values.                         *)
(***************************************************************************)
EXTENDS Integers, Sequences, FiniteSets

\* ---- bounds (scaled-down configuration, main.go:15-25) ----
gridW == 4
\* the scaled grid is twice as wide as it is high
gridH == gridW \div 2
baseTickSpeed == 3
speedUpEvery == 2
\* Update is not called any more once score has reached MaxScore.
MaxScore == 5

\* ---- program constants ----
\* how much to reduce tickSpeed (main.go:24)
speedDelta == 1
\* the literal 2 of "g.tickSpeed > 2" (main.go:170)
minTickSpeed == 2

VARIABLES snake, dir, nextDir, food, score, tickCount, tickSpeed, gameOver,
          started, keys, pc

vars == <<snake, dir, nextDir, food, score, tickCount, tickSpeed, gameOver,
          started, keys, pc>>

\* type Point struct { X, Y int }
Point(x, y) == [X |-> x, Y |-> y]

\* the tiles of the grid
Cells == {Point(x, y) : x \in 0..(gridW - 1), y \in 0..(gridH - 1)}

\* What ebiten.IsKeyPressed answers during one Update call: up is
\* KeyArrowUp || KeyW, down KeyArrowDown || KeyS, left KeyArrowLeft || KeyA,
\* right KeyArrowRight || KeyD, restart KeyR.
Inputs == [up : BOOLEAN, down : BOOLEAN, left : BOOLEAN, right : BOOLEAN,
           restart : BOOLEAN]

NoKeys == [up |-> FALSE, down |-> FALSE, left |-> FALSE, right |-> FALSE,
           restart |-> FALSE]

\* the cells of a snake, as a set
Occupancy(s) == {s[i] : i \in 1..Len(s)}

\* the snake reset builds
resetSnake ==
    LET cx == gridW \div 2
        cy == gridH \div 2
    IN  <<Point(cx, cy), Point(cx - 1, cy), Point(cx - 2, cy)>>

\* coll comparing p with the head of the snake only
collHeadOnly(p, s) == s[1] = p

\* coll with the loop over the snake starting behind the head
collBodyOnly(p, s) == \E i \in 2..Len(s) : s[i] = p

\* the inner loop of placeFood: does p hit a cell of the snake s?
coll(p, s) == \E i \in 1..Len(s) : s[i] = p

\* handleInput without the reversal guards
handleInputNoGuard(k, d, nd) ==
    LET n1 == IF k.up THEN Point(0, -1) ELSE nd
        n2 == IF k.down THEN Point(0, 1) ELSE n1
        n3 == IF k.left THEN Point(-1, 0) ELSE n2
        n4 == IF k.right THEN Point(1, 0) ELSE n3
    IN  n4

\* handleInput guarding against the reverse of the buffered nextDir, not of dir
handleInputVsNext(k, d, nd) ==
    LET n1 == IF k.up /\ nd.Y # 1 THEN Point(0, -1) ELSE nd
        n2 == IF k.down /\ n1.Y # -1 THEN Point(0, 1) ELSE n1
        n3 == IF k.left /\ n2.X # 1 THEN Point(-1, 0) ELSE n2
        n4 == IF k.right /\ n3.X # -1 THEN Point(1, 0) ELSE n3
    IN  n4

\* the four input blocks of Update, in the order of the code: each accepted key
\* overwrites nextDir; d is g.dir, nd is g.nextDir before the call
handleInput(k, d, nd) ==
    LET n1 == IF k.up /\ d.Y # 1 THEN Point(0, -1) ELSE nd
        n2 == IF k.down /\ d.Y # -1 THEN Point(0, 1) ELSE n1
        n3 == IF k.left /\ d.X # 1 THEN Point(-1, 0) ELSE n2
        n4 == IF k.right /\ d.X # -1 THEN Point(1, 0) ELSE n3
    IN  n4

\* restartCond with || for &&
restartCondOr(k, over) == k.restart \/ over

\* restartCond without the test of gameOver
restartCondAlways(k, over) == k.restart

\* "Restart if R is pressed after game over"
restartCond(k, over) == k.restart /\ over

\* throttled letting the movement step run one frame early
throttledEarly(tc, ts) == tc < ts - 1

\* throttled with <= for <
throttledLate(tc, ts) == tc <= ts

\* the throttle: tc is the incremented frame counter
throttled(tc, ts) == tc < ts

\* newHead := Point{head.X + g.dir.X, head.Y + g.dir.Y}
newHeadOf(s, d) == Point(s[1].X + d.X, s[1].Y + d.Y)

\* wallCollision with > for >= on the right and the bottom edge
wallCollisionLate(p) == p.X < 0 \/ p.X > gridW \/ p.Y < 0 \/ p.Y > gridH

\* wallCollision without the test of the top edge
wallCollisionNoTop(p) == p.X < 0 \/ p.X >= gridW \/ p.Y >= gridH

\* wallCollision one tile early on the right and the bottom edge
wallCollisionEarly(p) ==
    p.X < 0 \/ p.X >= gridW - 1 \/ p.Y < 0 \/ p.Y >= gridH - 1

\* "Check wall collision"
wallCollision(p) == p.X < 0 \/ p.X >= gridW \/ p.Y < 0 \/ p.Y >= gridH

\* selfCollision leaving out the tail cell, which a move without growth vacates
selfCollisionNoTail(p, s) == \E i \in 1..(Len(s) - 1) : s[i] = p

\* selfCollision comparing p with the head of the snake only
selfCollisionHeadOnly(p, s) == s[1] = p

\* "Check self collision": against every cell of the snake before the move
selfCollision(p, s) == \E i \in 1..Len(s) : s[i] = p

\* grow putting the new cell behind the tail
growAtTail(p, s) == s \o <<p>>

\* "Add new head at the front"
grow(p, s) == <<p>> \o s

\* dropTail cutting two cells
dropTailTwo(s) == SubSeq(s, 1, Len(s) - 2)

\* "Remove tail (no growth)"
dropTail(s) == SubSeq(s, 1, Len(s) - 1)

\* speedUp without the floor
speedUpNoFloor(sc, ts) ==
    IF sc % speedUpEvery = 0 THEN ts - speedDelta ELSE ts

\* "Speed up every few points": sc is the incremented score
speedUp(sc, ts) ==
    IF sc % speedUpEvery = 0 /\ ts > minTickSpeed THEN ts - speedDelta ELSE ts

\* ---- NewGame: the state after g.reset() has run in the constructor ----
Init ==
    /\ snake = resetSnake
    /\ dir = Point(1, 0)
    /\ nextDir = Point(1, 0)
    /\ food \in {p \in Cells : ~coll(p, resetSnake)}
    /\ score = 0
    /\ tickCount = 0
    /\ tickSpeed = baseTickSpeed
    /\ gameOver = FALSE
    /\ started = TRUE
    /\ keys = NoKeys
    /\ pc = "idle"

\* ---- Update, one definition per way out of the function ----

\* g.reset() up to its call of placeFood; the statements after the call are
\* the "reset_placeFood" case of PlaceFood
reset ==
    /\ snake' = resetSnake
    /\ dir' = Point(1, 0)
    /\ nextDir' = Point(1, 0)
    /\ pc' = "reset_placeFood"
    /\ UNCHANGED <<food, score, tickCount, tickSpeed, gameOver, started>>

\* "if g.gameOver { return nil }"
frozen ==
    UNCHANGED <<snake, dir, food, score, tickCount, tickSpeed, gameOver,
                started, pc>>

\* "if g.tickCount < g.tickSpeed { return nil }", after g.tickCount++
wait ==
    /\ tickCount' = tickCount + 1
    /\ UNCHANGED <<snake, dir, food, score, tickSpeed, gameOver, started, pc>>

\* wall or self collision: "g.gameOver = true; return nil"
collide ==
    /\ gameOver' = TRUE
    /\ UNCHANGED <<snake, food, score, tickSpeed, started, pc>>

\* eat without g.score++
eatNoScore(newHead) ==
    /\ snake' = grow(newHead, snake)
    /\ score' = score
    /\ tickSpeed' = speedUp(score, tickSpeed)
    /\ pc' = "update_placeFood"
    /\ UNCHANGED <<food, gameOver, started>>

\* the new head is on the food: up to the call of placeFood
eat(newHead) ==
    /\ snake' = grow(newHead, snake)
    /\ score' = score + 1
    /\ tickSpeed' = speedUp(score + 1, tickSpeed)
    /\ pc' = "update_placeFood"
    /\ UNCHANGED <<food, gameOver, started>>

\* move without the removal of the tail
moveKeepTail(newHead) ==
    /\ snake' = grow(newHead, snake)
    /\ UNCHANGED <<food, score, tickSpeed, gameOver, started, pc>>

\* the new head is on a free tile
move(newHead) ==
    /\ snake' = dropTail(grow(newHead, snake))
    /\ UNCHANGED <<food, score, tickSpeed, gameOver, started, pc>>

\* the movement step, lines 141-177: nd is g.nextDir after the input blocks
tick(nd) ==
    LET newHead == newHeadOf(snake, nd)
    IN  /\ tickCount' = 0
        /\ dir' = nd
        /\ IF wallCollision(newHead) \/ selfCollision(newHead, snake)
           THEN collide
           ELSE IF newHead = food THEN eat(newHead) ELSE move(newHead)

\* func (g *Game) Update() error, called with the keys k held down
Update(k) ==
    /\ pc = "idle"
    /\ score < MaxScore
    /\ keys' = k
    /\ IF restartCond(k, gameOver)
       THEN reset
       ELSE LET nd == handleInput(k, dir, nextDir)
            IN  /\ nextDir' = nd
                /\ IF gameOver
                   THEN frozen
                   ELSE IF throttled(tickCount + 1, tickSpeed)
                        THEN wait
                        ELSE tick(nd)

\* one round of the loop of placeFood: draw p; retry when it hits the snake,
\* otherwise store it and return into the caller, whose remaining statements
\* run (reset: lines 75-79; Update: return nil)
PlaceFood ==
    /\ pc \in {"reset_placeFood", "update_placeFood"}
    /\ \E p \in Cells :
          IF coll(p, snake)
          THEN UNCHANGED vars
          ELSE /\ food' = p
               /\ pc' = "idle"
               /\ IF pc = "reset_placeFood"
                  THEN /\ score' = 0
                       /\ tickCount' = 0
                       /\ tickSpeed' = baseTickSpeed
                       /\ gameOver' = FALSE
                       /\ started' = TRUE
                  ELSE UNCHANGED <<score, tickCount, tickSpeed, gameOver,
                                   started>>
               /\ UNCHANGED <<snake, dir, nextDir, keys>>

Next ==
    \/ \E k \in Inputs : Update(k)
    \/ PlaceFood

Spec == Init /\ [][Next]_vars

\* The draws of placeFood are fair: rand.Intn gives every tile a positive
\* chance in every round, so a round that stores a free tile is not put off
\* forever while there is a free tile.
FairSpec == Spec /\ WF_vars(PlaceFood)

\* ---- vocabulary of the properties ----

\* the exact reverse of a direction
Reverse(d) == Point(0 - d.X, 0 - d.Y)

\* the direction keys held down in k, as the directions they ask for
Intents(k) ==
    {d \in {Point(0, -1), Point(0, 1), Point(-1, 0), Point(1, 0)} :
        \/ k.up /\ d = Point(0, -1)
        \/ k.down /\ d = Point(0, 1)
        \/ k.left /\ d = Point(-1, 0)
        \/ k.right /\ d = Point(1, 0)}

\* This step is the start of an Update call that restarts the game.
RestartStep == pc = "idle" /\ keys'.restart /\ gameOver

\* This step belongs to a call of reset.
ResetStep == RestartStep \/ pc = "reset_placeFood"

\* ---- C1 ----
\* C1: between two Update calls (and so right after every placeFood) the food
\* is on no cell of the snake.
C1_FoodOffSnake ==
    pc = "idle" => \A i \in 1..Len(snake) : snake[i] # food

\* placeFood has run inside Update: after a meal the food is on a free tile
C1_Witness ==
    /\ pc = "idle"
    /\ score >= 1
    /\ Len(snake) >= 4
    /\ food \in Cells \ Occupancy(snake)

\* ---- C2 ----
\* C2: the snake always has at least one cell and no two of its cells are at
\* the same position, also in the state a collision leaves behind.
C2_SnakeDistinct ==
    /\ Len(snake) >= 1
    /\ \A i, j \in 1..Len(snake) : i # j => snake[i] # snake[j]

\* game over by self collision: the head was about to enter the body
C2_Witness ==
    /\ gameOver
    /\ Len(snake) >= 4
    /\ newHeadOf(snake, dir) \in Occupancy(snake)

\* ---- C3 ----
\* C3: once gameOver is true, an Update call without the restart key changes
\* none of snake, dir, food, score, tickSpeed, tickCount and gameOver.
C3_GameOverFrozen ==
    [][(pc = "idle" /\ gameOver /\ ~keys'.restart) =>
         UNCHANGED <<snake, dir, food, score, tickSpeed, tickCount, gameOver>>]_vars

\* a call made while game over read a direction key (nextDir left dir) and
\* the game is still over
C3_Witness ==
    /\ pc = "idle"
    /\ gameOver
    /\ ~keys.restart
    /\ Intents(keys) # {}
    /\ nextDir # dir

\* ---- C4 ----
\* C4: when the only direction key held down asks for the exact reverse of dir,
\* the input handling of that Update call leaves nextDir as it was.
C4_ReverseRejected ==
    [][(pc = "idle" /\ ~RestartStep /\ Intents(keys') = {Reverse(dir)}) =>
         nextDir' = nextDir]_vars

\* a frame between two movements (dir as before the call) in which the only
\* direction key was the reverse of dir, with a turn already buffered
C4_Witness ==
    /\ pc = "idle"
    /\ ~gameOver
    /\ tickCount > 0
    /\ Intents(keys) = {Reverse(dir)}
    /\ nextDir # dir

\* ---- C5 ----
\* C5: nextDir is never the exact reverse of dir, and no movement tick commits
\* the reverse of the direction of the movement tick before it.
C5_NoReversal ==
    /\ [](nextDir # Reverse(dir))
    /\ [][(pc = "idle" /\ ~RestartStep) => dir' # Reverse(dir)]_vars

\* several keys at once, the reverse of dir among them, and a turn buffered
C5_Witness ==
    /\ pc = "idle"
    /\ ~gameOver
    /\ tickCount > 0
    /\ Cardinality(Intents(keys)) >= 2
    /\ Reverse(dir) \in Intents(keys)
    /\ nextDir # dir


\* ---- C6 ----
\* C6: outside a reset, no step shortens the snake and a step lengthens it by
\* at most one cell.
C6_LengthMonotone ==
    [][~ResetStep => Len(snake') \in {Len(snake), Len(snake) + 1}]_vars

\* the snake has grown twice and has also moved without growing: its tail has
\* left the tile where reset put it
C6_Witness ==
    /\ pc = "idle"
    /\ ~gameOver
    /\ Len(snake) = 5
    /\ snake[5] # resetSnake[3]

\* This step is a movement of the head onto the food cell.
EatStep ==
    /\ pc = "idle"
    /\ ~RestartStep
    /\ snake' # snake
    /\ snake'[1] = food

\* ---- C7 ----
\* C7: score is never negative; a step that moves the head onto the food adds
\* exactly 1 to it and every other step outside a reset leaves it alone.
C7_Score ==
    /\ [](score >= 0)
    /\ [][EatStep => score' = score + 1]_vars
    /\ [][(~EatStep /\ ~ResetStep) => score' = score]_vars

\* two meals in a row have been counted
C7_Witness ==
    /\ pc = "idle"
    /\ score = 2
    /\ Len(snake) = 5

\* ---- C8 ----
\* C8: tickSpeed never goes below the minimum; outside a reset it never
\* increases, and it changes only by speedDelta, on a step that eats, brings
\* score to a multiple of speedUpEvery and starts above the minimum.
C8_TickSpeed ==
    /\ [](tickSpeed >= minTickSpeed)
    /\ [][~ResetStep => tickSpeed' <= tickSpeed]_vars
    /\ [][(~ResetStep /\ tickSpeed' # tickSpeed) =>
            /\ EatStep
            /\ score' % speedUpEvery = 0
            /\ tickSpeed > minTickSpeed
            /\ tickSpeed' = tickSpeed - speedDelta]_vars

\* the floor has been used: score has passed one more multiple of speedUpEvery
\* than there are steps from baseTickSpeed down to the minimum
C8_Witness ==
    /\ pc = "idle"
    /\ tickSpeed = minTickSpeed
    /\ score >= speedUpEvery * (baseTickSpeed - minTickSpeed + 1)

\* ---- C9 ----
\* C9: the game starts running; gameOver becomes true only in an Update call
\* that reaches the movement step and finds the new head outside the grid or on
\* the snake, and becomes false only at the end of a reset that an Update call
\* with the restart key started.
C9_Modes ==
    /\ ~gameOver
    /\ [](gameOver \in BOOLEAN)
    /\ [][(~gameOver /\ gameOver') =>
            /\ pc = "idle"
            /\ tickCount + 1 >= tickSpeed
            /\ LET nh == Point(snake[1].X + dir'.X, snake[1].Y + dir'.Y)
               IN  nh \notin Cells \/ nh \in Occupancy(snake)]_vars
    /\ [][(gameOver /\ ~gameOver') =>
            (pc = "reset_placeFood" /\ keys.restart)]_vars

\* running again after a lost game: the restart key is down, the snake is the
\* one reset builds and nothing has moved yet
C9_Witness ==
    /\ pc = "idle"
    /\ ~gameOver
    /\ keys.restart
    /\ snake = resetSnake
    /\ tickCount = 0
    /\ score = 0

\* the state reset leaves behind, written out
ResetState ==
    /\ snake = <<Point(gridW \div 2, gridH \div 2),
                 Point(gridW \div 2 - 1, gridH \div 2),
                 Point(gridW \div 2 - 2, gridH \div 2)>>
    /\ dir = Point(1, 0)
    /\ nextDir = Point(1, 0)
    /\ score = 0
    /\ tickCount = 0
    /\ tickSpeed = baseTickSpeed
    /\ gameOver = FALSE
    /\ food \in Cells \ Occupancy(snake)

\* ---- C10 ----
\* C10: an Update call with the restart key made while gameOver is true runs
\* reset and nothing else, so that it ends in the reset state whatever else is
\* held down; made while gameOver is false it runs no reset: the snake stays or
\* moves one tile and score and tickSpeed are not set back.
C10_Restart ==
    /\ [][(pc = "idle" /\ gameOver /\ keys'.restart) =>
            pc' = "reset_placeFood"]_vars
    /\ [][(pc = "reset_placeFood" /\ pc' = "idle") => ResetState']_vars
    /\ [][(pc = "idle" /\ ~gameOver /\ keys'.restart) =>
            /\ pc' # "reset_placeFood"
            /\ score' >= score
            /\ tickSpeed' <= tickSpeed
            /\ \/ snake' = snake
               \/ SubSeq(snake', 2, Len(snake')) = snake
               \/ SubSeq(snake', 2, Len(snake')) = SubSeq(snake, 1, Len(snake) - 1)]_vars

\* a restart with the up key held down as well: had the input blocks run,
\* nextDir would be (0,-1)
C10_Witness ==
    /\ pc = "idle"
    /\ ResetState
    /\ keys.restart
    /\ keys.up
    /\ ~keys.down /\ ~keys.left /\ ~keys.right

\* This step is an Update call that reaches the movement step (line 141).
MoveTick == pc = "idle" /\ ~gameOver /\ tickCount + 1 >= tickSpeed

\* head + dir of a movement step, dir being the direction it commits
NewHead == Point(snake[1].X + dir'.X, snake[1].Y + dir'.Y)

\* ---- C11 ----
\* C11: a movement step whose new head is inside the grid, off the snake and on
\* the food puts the new head in front of the whole previous snake, and the
\* placeFood that follows leaves the snake alone and puts the food on a cell
\* outside it.
C11_EatGrows ==
    /\ [][(MoveTick /\ NewHead \in Cells /\ NewHead \notin Occupancy(snake)
             /\ NewHead = food) =>
            /\ snake' = <<NewHead>> \o snake
            /\ Len(snake') = Len(snake) + 1
            /\ pc' = "update_placeFood"]_vars
    /\ [][(pc = "update_placeFood" /\ pc' = "idle") =>
            /\ snake' = snake
            /\ food' \in Cells \ Occupancy(snake')]_vars

\* the first meal: the snake of reset, whole and in order, behind the new head
C11_Witness ==
    /\ pc = "idle"
    /\ score = 1
    /\ tickCount = 0
    /\ Len(snake) = 4
    /\ SubSeq(snake, 2, 4) = resetSnake
    /\ food \in Cells \ Occupancy(snake)

\* ---- C12 ----
\* C12: a movement step whose new head is outside the grid sets gameOver and
\* leaves snake, food, score and tickSpeed alone; the frame counter is back at 0
\* and dir is the committed nextDir.
C12_WallHit ==
    [][(MoveTick /\ NewHead \notin Cells) =>
         /\ gameOver'
         /\ UNCHANGED <<snake, food, score, tickSpeed>>
         /\ tickCount' = 0
         /\ dir' = nextDir'
         /\ pc' = "idle"]_vars

\* game over at a wall with a snake that has grown and turned
C12_Witness ==
    /\ pc = "idle"
    /\ gameOver
    /\ newHeadOf(snake, dir) \notin Cells
    /\ Len(snake) >= 4
    /\ dir # Point(1, 0)

\* ---- C13 ----
\* C13: a movement step whose new head is inside the grid and on any cell of
\* the snake as it is before the move, the tail cell included, sets gameOver
\* and leaves snake, food, score and tickSpeed alone.
C13_SelfHit ==
    [][(MoveTick /\ NewHead \in Cells /\ NewHead \in Occupancy(snake)) =>
         /\ gameOver'
         /\ UNCHANGED <<snake, food, score, tickSpeed>>]_vars

\* game over by running into the tail cell
C13_Witness ==
    /\ pc = "idle"
    /\ gameOver
    /\ newHeadOf(snake, dir) = snake[Len(snake)]

\* ---- C14 ----
\* C14: an Update call made while the game runs and the incremented frame
\* counter is below tickSpeed changes tickCount, by one, and nextDir, to itself
\* or to a direction asked for that is not the reverse of dir, and nothing
\* else; dir takes the value of nextDir in the movement step.
C14_WaitFrame ==
    /\ [][(pc = "idle" /\ ~gameOver /\ tickCount + 1 < tickSpeed) =>
            /\ UNCHANGED <<snake, dir, food, score, tickSpeed, gameOver>>
            /\ tickCount' = tickCount + 1
            /\ nextDir' \in {nextDir} \cup (Intents(keys') \ {Reverse(dir)})]_vars
    /\ [][MoveTick => dir' = nextDir']_vars

\* a frame between two movements has buffered the one direction asked for,
\* and dir has not followed
C14_Witness ==
    /\ pc = "idle"
    /\ ~gameOver
    /\ tickCount > 0
    /\ nextDir # dir
    /\ Intents(keys) = {nextDir}

\* ---- C15 ----
\* C15: between two Update calls 0 <= tickCount < tickSpeed; while the game
\* runs, a call with tickCount + 1 < tickSpeed only counts the frame, the call
\* with tickCount + 1 = tickSpeed moves the snake or ends the game and puts the
\* counter back to 0, and the counter is 0 after every movement, collision and
\* reset: movement steps are tickSpeed calls apart.
C15_Spacing ==
    /\ [](pc = "idle" => (0 <= tickCount /\ tickCount < tickSpeed))
    /\ [][(pc = "idle" /\ ~gameOver) =>
            IF tickCount + 1 = tickSpeed
            THEN tickCount' = 0 /\ (snake' # snake \/ gameOver')
            ELSE /\ tickCount' = tickCount + 1
                 /\ snake' = snake
                 /\ tickSpeed' = tickSpeed
                 /\ ~gameOver']_vars
    /\ [][(snake' # snake \/ gameOver' # gameOver) => tickCount' = 0]_vars

\* one frame before a movement at the fastest speed
C15_Witness ==
    /\ pc = "idle"
    /\ ~gameOver
    /\ score > 0
    /\ tickSpeed = minTickSpeed
    /\ tickCount = tickSpeed - 1

\* ---- C16 ----
\* C16: while a tile is free of the snake, a running placeFood returns; when
\* the snake covers the whole grid, a running placeFood never returns and the
\* state stays as it is.
C16_PlaceFoodLoop ==
    /\ (pc # "idle" /\ Occupancy(snake) # Cells) ~> (pc = "idle")
    /\ [][(pc # "idle" /\ Occupancy(snake) = Cells) =>
            (pc' = pc /\ snake' = snake /\ food' = food)]_vars

\* a meal has made the snake cover the grid and placeFood is running
C16_Witness ==
    /\ pc = "update_placeFood"
    /\ Len(snake) = gridW * gridH
    /\ Occupancy(snake) = Cells

\* ---- C17 ----
\* C17: every cell of the snake and the food cell are inside the grid, in
\* every state, the one a wall collision leaves behind included.
C17_InGrid ==
    /\ \A i \in 1..Len(snake) :
          /\ 0 <= snake[i].X /\ snake[i].X < gridW
          /\ 0 <= snake[i].Y /\ snake[i].Y < gridH
    /\ 0 <= food.X /\ food.X < gridW
    /\ 0 <= food.Y /\ food.Y < gridH

\* game over at the top wall, the head on the top row
C17_Witness ==
    /\ gameOver
    /\ snake[1].Y = 0
    /\ dir = Point(0, -1)

\* ---- C18 ----
\* C18: score is the length of the snake minus 3, in every state but those
\* inside a running reset (which has built the new snake and not yet cleared
\* score).
C18_ScoreIsGrowth ==
    pc # "reset_placeFood" => score = Len(snake) - 3

\* three meals: three points and three cells more than reset gave
C18_Witness ==
    /\ pc = "idle"
    /\ score = 3
    /\ Len(snake) = 6

\* ---- C19 ----
\* C19: while the game runs, dir is head minus neck, and no movement step has
\* its new head on the neck.
C19_DirIsLastMove ==
    /\ [](~gameOver =>
            (dir.X = snake[1].X - snake[2].X /\ dir.Y = snake[1].Y - snake[2].Y))
    /\ [][MoveTick => NewHead # snake[2]]_vars

\* the snake has turned twice and runs leftwards
C19_Witness ==
    /\ pc = "idle"
    /\ ~gameOver
    /\ dir = Point(-1, 0)
    /\ snake[2].X = snake[1].X + 1
    /\ tickCount > 0
    /\ Intents(keys) = {Point(1, 0)}

\* ---- C20 ----
\* C20: a game that is over with score 0 (as seen between two Update calls)
\* ended at a wall, and every step that ends a game with score 0, the snake
\* being three cells long, has its new head outside the grid and off the snake.
C20_NoSelfHitAtThree ==
    /\ []((pc = "idle" /\ gameOver /\ score = 0) =>
            /\ Len(snake) = 3
            /\ newHeadOf(snake, dir) \notin Cells
            /\ newHeadOf(snake, dir) \notin Occupancy(snake))
    /\ [][(~gameOver /\ gameOver' /\ (score = 0 \/ Len(snake) = 3)) =>
            (NewHead \notin Cells /\ NewHead \notin Occupancy(snake))]_vars

\* a game lost with score 0 after the snake has moved and turned
C20_Witness ==
    /\ pc = "idle"
    /\ gameOver
    /\ score = 0
    /\ snake # resetSnake
    /\ dir # Point(1, 0)

\* Self collision at length 4 (reached: the head runs into the tail cell).
SelfHitAtFour ==
    /\ gameOver
    /\ Len(snake) = 4
    /\ newHeadOf(snake, dir) \in Occupancy(snake)

====
